---- MODULE Spec2Model ----
(***************************************************************************)
(* Model of keras_rcnn/layers/object_detection/_anchor_target.py: the      *)
(* AnchorTarget layer (RPN training targets).                              *)
(*                                                                         *)
(* Conventions.                                                            *)
(*  - Arrays are sequences; the source's 0-based index i is i+1 here.      *)
(*  - A box is <<x1, y1, x2, y2>> over the integers.                       *)
(*  - An overlap (IoU) and a threshold are exact fractions <<num, den>>    *)
(*    with den > 0, compared by cross-multiplication.                      *)
(*  - Labels are the floats -1.0, 0.0, 1.0 of the source, kept as the      *)
(*    integers -1, 0, 1 (sums of them stay integral).                      *)
(***************************************************************************)
EXTENDS Integers, Sequences, FiniteSets

VARIABLES
    pc,                    \* position inside AnchorTarget.call
    self,                  \* the layer's configuration (__init__)
    inputs,                \* [scores (its grid shape), gt_boxes, metadata]
    anchors,               \* call: anchors
    argmax_overlaps_inds,  \* label: per anchor, index of its best gt box
    max_overlaps,          \* label: per anchor, its best overlap
    gt_argmax_overlaps_inds, \* label: per gt box, index of its best anchor
    bg_labels,             \* label: labels after the first background pass
    fg_labels,             \* label: labels after the force-positive scatter
    raw_labels,            \* label: labels handed to balance (line 139)
    pos_labels,            \* balance: labels after subsample_positive_labels
    balanced,              \* label's second result: balance(labels)
    labels,                \* call: returned labels
    bbox_reg_targets       \* call: returned regression targets

vars == <<pc, self, inputs, anchors, argmax_overlaps_inds, max_overlaps,
          gt_argmax_overlaps_inds, bg_labels, fg_labels, raw_labels,
          pos_labels, balanced, labels, bbox_reg_targets>>

----------------------------------------------------------------------------
(* Program constants *)

RPN_BATCHSIZE == 256

\* RPN_FG_FRACTION = 0.5, as the fraction RPN_FG_FRACTION_NUM / RPN_FG_FRACTION_DEN
RPN_FG_FRACTION_NUM == 1
RPN_FG_FRACTION_DEN == 2

----------------------------------------------------------------------------
(* Bounds of the model *)

\* grids have 0..MaxGrid rows and 0..MaxGrid columns in the small inputs
MaxGrid == 2
\* at most MaxGt ground-truth boxes in the small inputs
MaxGt == 2
\* the large inputs over-subscribe a class by at most MaxExcess labels
MaxExcess == 2
\* a shuffle of more than 2 * MaxPick indices puts some of the MaxPick lowest and
\* the MaxPick highest of them first
MaxPick == 3
\* the small label arrays given to balance alone have at most MaxLabels entries
MaxLabels == 3

----------------------------------------------------------------------------
(* Exact fractions *)

Less(a, b) == a[1] * b[2] < b[1] * a[2]

GreaterEqual(a, b) == ~Less(a, b)

Min(a, b) == IF a <= b THEN a ELSE b

Max(a, b) == IF a >= b THEN a ELSE b

----------------------------------------------------------------------------
(* Tensor primitives *)

\* keras.backend.argmax over a non-empty axis: the lowest index of a maximum
argmax(s) ==
    CHOOSE i \in 1..Len(s) :
        /\ \A j \in 1..Len(s) : ~Less(s[i], s[j])
        /\ \A j \in 1..(i - 1) : Less(s[j], s[i])

\* keras_rcnn.backend.unique: the distinct values of x, in order of first occurrence
RECURSIVE unique(_)
unique(x) ==
    IF x = <<>> THEN <<>>
    ELSE LET front == unique(SubSeq(x, 1, Len(x) - 1))
             last  == x[Len(x)]
         IN  IF \E k \in 1..Len(front) : front[k] = last
             THEN front
             ELSE Append(front, last)

\* keras.backend.gather(reference, indices)
gather(reference, indices) == [k \in 1..Len(indices) |-> reference[indices[k]]]

RECURSIVE SumUpdates(_, _, _, _)
SumUpdates(indices, updates, i, k) ==
    IF k = 0 THEN 0
    ELSE SumUpdates(indices, updates, i, k - 1)
         + (IF indices[k] = i THEN updates[k] ELSE 0)

\* keras_rcnn.backend.scatter_add_tensor: ref plus, at every index, the sum of
\* all the updates addressed to it (a repeated index adds more than once)
scatter_add_tensor(ref, indices, updates) ==
    [i \in 1..Len(ref) |-> ref[i] + SumUpdates(indices, updates, i, Len(indices))]

\* keras_rcnn.backend.where(keras.backend.equal(x, v)): the indices of the
\* entries of x equal to v (each index once; kept as a set)
where_equal(x, v) == { i \in 1..Len(x) : x[i] = v }

\* the w lowest and the w highest members of the set inds
Ends(inds, w) ==
    { i \in inds : \/ Cardinality({ j \in inds : j < i }) < w
                   \/ Cardinality({ j \in inds : j > i }) < w }

\* keras_rcnn.backend.shuffle(inds)[:size]: the first size entries of a random
\* permutation of inds, that is size distinct entries of inds.  scatter_add_tensor
\* does not depend on the order of its (index, update) pairs, so every set of size
\* entries is represented once, in increasing order.  Of a long inds only the
\* outcomes drawn from its two ends are explored (MaxPick).
shuffle_prefix(inds, size) ==
    { s \in [1..size -> Ends(inds, MaxPick)] : \A k \in 1..(size - 1) : s[k] < s[k + 1] }

----------------------------------------------------------------------------
(* Geometry *)

\* the anchor shapes of one grid cell, relative to the cell's grid point
BaseAnchors == << <<-1, -1, 1, 1>> >>

\* keras_rcnn.backend.shift((rr, cc), stride): one anchor per (row, column, shape),
\* row-major over the cells, then the shape index within a cell
shift(shape, stride) ==
    LET rr == shape[1]
        cc == shape[2]
        A  == Len(BaseAnchors)
    IN  [n \in 1..(rr * cc * A) |->
            LET cell == (n - 1) \div A
                k    == ((n - 1) % A) + 1
                row  == cell \div cc
                col  == cell % cc
                b    == BaseAnchors[k]
            IN  <<b[1] + col * stride, b[2] + row * stride,
                  b[3] + col * stride, b[4] + row * stride>>]

area(b) == (b[3] - b[1]) * (b[4] - b[2])

intersection(a, g) ==
    LET iw == Min(a[3], g[3]) - Max(a[1], g[1])
        ih == Min(a[4], g[4]) - Max(a[2], g[2])
    IN  IF iw > 0 /\ ih > 0 THEN iw * ih ELSE 0

\* IoU(a, g) = area(a & g) / (area(a) + area(g) - area(a & g)); 0 if the boxes do
\* not intersect or either has non-positive area
IoU(a, g) ==
    IF area(a) <= 0 \/ area(g) <= 0 \/ intersection(a, g) = 0
    THEN <<0, 1>>
    ELSE <<intersection(a, g), area(a) + area(g) - intersection(a, g)>>

\* keras_rcnn.backend.overlap(a, b): the N x M matrix of IoU values
overlap(a, b) == [i \in 1..Len(a) |-> [j \in 1..Len(b) |-> IoU(a[i], b[j])]]

\* keras_rcnn.backend.bbox_transform(anchors, gt): per anchor the delta
\* (dx, dy, dw, dh); dx and dy are exact fractions, dw and dh are ln of the
\* fraction kept in their place
bbox_transform(ex, gt) ==
    [i \in 1..Len(ex) |->
        LET a == ex[i]
            g == gt[i]
        IN  [dx |-> <<(g[1] + g[3]) - (a[1] + a[3]), 2 * (a[3] - a[1])>>,
             dy |-> <<(g[2] + g[4]) - (a[2] + a[4]), 2 * (a[4] - a[2])>>,
             dw |-> <<g[3] - g[1], a[3] - a[1]>>,
             dh |-> <<g[4] - g[2], a[4] - a[2]>>]]

----------------------------------------------------------------------------
(* overlapping (lines 144-170) *)

\* keras.backend.argmax raises when the axis it reduces is empty: axis 0 has
\* one entry per anchor (line 158), axis 1 one entry per gt box (line 160)
overlapping_raises(anchors_, gt) == Len(anchors_) = 0 \/ Len(gt) = 0

overlapping(anchors_, gt) ==
    LET reference == overlap(anchors_, gt)
        N == Len(anchors_)
        M == Len(gt)
        amax == [i \in 1..N |-> argmax(reference[i])]
    IN  [argmax_overlaps_inds    |-> amax,
         max_overlaps            |-> [i \in 1..N |-> reference[i][amax[i]]],
         gt_argmax_overlaps_inds |->
             [j \in 1..M |-> argmax([i \in 1..N |-> reference[i][j]])]]

----------------------------------------------------------------------------
(* label (lines 100-141), pass by pass *)

\* lines 113 and 118-120: all -1, then, unless clobber_positives, 0 below the
\* negative threshold
label_bg_first(max_ov, RPN_NEGATIVE_OVERLAP, clobber) ==
    [i \in 1..Len(max_ov) |->
        IF ~clobber /\ Less(max_ov[i], RPN_NEGATIVE_OVERLAP) THEN 0 ELSE -1]

\* label_fg_highest scattering at gt_argmax itself, without unique
label_fg_highest_no_unique(labels_, gt_argmax) ==
    LET inverse_labels == gather([i \in 1..Len(labels_) |-> (0 - 1) * labels_[i]],
                                 gt_argmax)
    IN  scatter_add_tensor(labels_, gt_argmax,
            [k \in 1..Len(gt_argmax) |-> inverse_labels[k] + 1])

\* label_fg_highest for the first gt box alone
label_fg_highest_first_only(labels_, gt_argmax) ==
    [i \in 1..Len(labels_) |-> IF i = gt_argmax[1] THEN 1 ELSE labels_[i]]

\* lines 125-131: for each gt box, the anchor with the highest overlap
label_fg_highest(labels_, gt_argmax) ==
    LET unique_indices == unique(gt_argmax)
        inverse_labels == gather([i \in 1..Len(labels_) |-> (0 - 1) * labels_[i]],
                                 unique_indices)
        updates == [k \in 1..Len(unique_indices) |-> 1]
    IN  scatter_add_tensor(labels_, unique_indices,
            [k \in 1..Len(unique_indices) |-> inverse_labels[k] + updates[k]])

\* line 133: 1 at or above the positive threshold
label_fg_threshold(labels_, max_ov, RPN_POSITIVE_OVERLAP) ==
    [i \in 1..Len(labels_) |->
        IF GreaterEqual(max_ov[i], RPN_POSITIVE_OVERLAP) THEN 1 ELSE labels_[i]]

\* label_bg_last run whatever clobber_positives is
label_bg_last_always(labels_, max_ov, RPN_NEGATIVE_OVERLAP, clobber) ==
    [i \in 1..Len(labels_) |->
        IF Less(max_ov[i], RPN_NEGATIVE_OVERLAP) THEN 0 ELSE labels_[i]]

\* label_bg_last leaving the positives alone
label_bg_last_keep_positive(labels_, max_ov, RPN_NEGATIVE_OVERLAP, clobber) ==
    [i \in 1..Len(labels_) |->
        IF clobber /\ Less(max_ov[i], RPN_NEGATIVE_OVERLAP) /\ labels_[i] # 1
        THEN 0 ELSE labels_[i]]

\* lines 135-137: if clobber_positives, 0 below the negative threshold
label_bg_last(labels_, max_ov, RPN_NEGATIVE_OVERLAP, clobber) ==
    [i \in 1..Len(labels_) |->
        IF clobber /\ Less(max_ov[i], RPN_NEGATIVE_OVERLAP) THEN 0 ELSE labels_[i]]

----------------------------------------------------------------------------
(* balance (lines 84-97, 173-233) *)

\* line 212: num_fg = int(RPN_FG_FRACTION * RPN_BATCHSIZE)
num_fg == (RPN_FG_FRACTION_NUM * RPN_BATCHSIZE) \div RPN_FG_FRACTION_DEN

\* more_labels adding the updates alone, without the inverse labels
more_labels_updates_only(labels_, indices) ==
    scatter_add_tensor(labels_, indices, [k \in 1..Len(indices) |-> 0 - 1])

\* lines 189-197 and 221-229: every chosen index gets -labels[index] - 1 added
more_labels(labels_, indices) ==
    scatter_add_tensor(labels_, indices,
        [k \in 1..Len(indices) |-> (0 - labels_[indices[k]]) + (0 - 1)])

\* lines 214-217: size = num_fg_inds - num_fg
positive_size(labels_) == Cardinality(where_equal(labels_, 1)) - num_fg

\* lines 204-233, for the outcome indices of shuffle(fg_inds)[:size] (line 221)
subsample_positive_labels(labels_, indices) ==
    IF positive_size(labels_) <= 0 THEN labels_ ELSE more_labels(labels_, indices)

\* negative_size with num_bg the whole batch, the positives not taken off
negative_size_whole_batch(labels_) ==
    Cardinality(where_equal(labels_, 0)) - RPN_BATCHSIZE

\* lines 180-186: size = num_bg_inds - num_bg
negative_size(labels_) ==
    LET num_bg == RPN_BATCHSIZE - Cardinality(where_equal(labels_, 1))
    IN  Cardinality(where_equal(labels_, 0)) - num_bg

\* lines 173-201, for the outcome indices of shuffle(bg_inds)[:size] (line 189)
subsample_negative_labels(labels_, indices) ==
    IF negative_size(labels_) <= 0 THEN labels_ ELSE more_labels(labels_, indices)

----------------------------------------------------------------------------
(* inside_image (lines 237-256); im_info is <<height, width, scale>> *)

\* inside_image with <= at the right and bottom edges
inside_image_inclusive(boxes, im_info, allowed_border) ==
    [i \in 1..Len(boxes) |->
        /\ boxes[i][1] >= -allowed_border
        /\ boxes[i][2] >= -allowed_border
        /\ boxes[i][3] <= allowed_border + im_info[2]
        /\ boxes[i][4] <= allowed_border + im_info[1]]

inside_image(boxes, im_info, allowed_border) ==
    [i \in 1..Len(boxes) |->
        /\ boxes[i][1] >= -allowed_border
        /\ boxes[i][2] >= -allowed_border
        /\ boxes[i][3] < allowed_border + im_info[2]
        /\ boxes[i][4] < allowed_border + im_info[1]]

\* line 67: where(inds_inside, labels, -1 * ones_like(labels))
mask_outside(inds_inside, labels_) ==
    [i \in 1..Len(labels_) |-> IF inds_inside[i] THEN labels_[i] ELSE -1]

----------------------------------------------------------------------------
(* Inputs of the model *)

\* ground-truth boxes: an anchor's own box, a box straddling two cells, a box
\* over four cells, a small box inside a later cell (or off the grid)
GtBoxes ==
    { <<-1, -1, 1, 1>>, <<0, -1, 2, 1>>, <<-1, -1, 3, 3>>, <<2, 2, 3, 3>> }

GtSeqs == UNION { [1..m -> GtBoxes] : m \in 0..MaxGt }

\* (height, width, scale)
Metadatas == { <<4, 2, 1>>, <<3, 4, 1>> }

\* (negative_overlap, positive_overlap): the defaults, and the two exchanged
Overlaps == { << <<3, 10>>, <<7, 10>> >>, << <<7, 10>>, <<3, 10>> >> }

SmallCalls ==
    [ scores            : (0..MaxGrid) \X (0..MaxGrid),
      gt_boxes          : GtSeqs,
      metadata          : Metadatas,
      allowed_border    : {0, 1},
      clobber_positives : BOOLEAN,
      overlaps          : Overlaps,
      stride            : {1, 2} ]

\* one row of more than num_fg anchors, every one of them foreground
\* (positive_overlap = 0); the image holds the first 128 anchors
LargeFgCalls ==
    { [ scores            |-> <<1, num_fg + k>>,
        gt_boxes          |-> << <<-1, -1, 1, 1>> >>,
        metadata          |-> <<4, 255, 1>>,
        allowed_border    |-> 1,
        clobber_positives |-> FALSE,
        overlaps          |-> << <<3, 10>>, <<0, 1>> >>,
        stride            |-> 2 ] : k \in 1..MaxExcess }

\* one row of more than RPN_BATCHSIZE anchors, all background but the one forced
\* foreground (which clobber_positives turns background when the gt box is away)
LargeBgCalls ==
    { [ scores            |-> <<1, RPN_BATCHSIZE + k>>,
        gt_boxes          |-> g,
        metadata          |-> <<4, 255, 1>>,
        allowed_border    |-> 1,
        clobber_positives |-> c,
        overlaps          |-> << <<3, 10>>, <<7, 10>> >>,
        stride            |-> 2 ] :
      k \in 1..MaxExcess, c \in BOOLEAN,
      g \in { << <<-1, -1, 1, 1>> >>, << <<5, 5, 7, 7>> >>,
               << <<-1, -1, 1, 1>>, <<5, 5, 7, 7>> >> } }

----------------------------------------------------------------------------
(* AnchorTarget.call (lines 41-74) *)

Start(c) ==
    /\ self = [ allowed_border    |-> c.allowed_border,
                clobber_positives |-> c.clobber_positives,
                negative_overlap  |-> c.overlaps[1],
                positive_overlap  |-> c.overlaps[2],
                stride            |-> c.stride ]
    /\ inputs = [ scores   |-> c.scores,
                  gt_boxes |-> c.gt_boxes,
                  metadata |-> c.metadata ]
    /\ pc = "call"
    /\ anchors = <<>>
    /\ argmax_overlaps_inds = <<>>
    /\ max_overlaps = <<>>
    /\ gt_argmax_overlaps_inds = <<>>
    /\ bg_labels = <<>>
    /\ fg_labels = <<>>
    /\ raw_labels = <<>>
    /\ pos_labels = <<>>
    /\ balanced = <<>>
    /\ labels = <<>>
    /\ bbox_reg_targets = <<>>

Init ==
    \/ \E c \in SmallCalls : Start(c)
    \/ \E c \in LargeFgCalls \cup LargeBgCalls : Start(c)

\* lines 42-55, into label up to line 116, when overlapping raises
label_raises ==
    /\ pc = "call"
    /\ overlapping_raises(shift(inputs.scores, self.stride), inputs.gt_boxes)
    /\ anchors' = shift(inputs.scores, self.stride)
    /\ pc' = "raised"
    /\ UNCHANGED <<self, inputs, argmax_overlaps_inds, max_overlaps,
                   gt_argmax_overlaps_inds, bg_labels, fg_labels, raw_labels,
                   pos_labels, balanced, labels, bbox_reg_targets>>

\* lines 42-55, into label up to line 139
label_passes ==
    /\ pc = "call"
    /\ ~overlapping_raises(shift(inputs.scores, self.stride), inputs.gt_boxes)
    /\ LET y_pred == shift(inputs.scores, self.stride)
           o      == overlapping(y_pred, inputs.gt_boxes)
           l1     == label_bg_first(o.max_overlaps, self.negative_overlap,
                                    self.clobber_positives)
           l2     == label_fg_highest(l1, o.gt_argmax_overlaps_inds)
           l3     == label_fg_threshold(l2, o.max_overlaps, self.positive_overlap)
           l4     == label_bg_last(l3, o.max_overlaps, self.negative_overlap,
                                   self.clobber_positives)
       IN  /\ anchors' = y_pred
           /\ argmax_overlaps_inds' = o.argmax_overlaps_inds
           /\ max_overlaps' = o.max_overlaps
           /\ gt_argmax_overlaps_inds' = o.gt_argmax_overlaps_inds
           /\ bg_labels' = l1
           /\ fg_labels' = l2
           /\ raw_labels' = l4
    /\ pc' = "balance"
    /\ UNCHANGED <<self, inputs, pos_labels, balanced, labels, bbox_reg_targets>>

\* balance run on the labels of the anchors inside the image only
balance_inside_only ==
    /\ pc = "balance"
    /\ LET l == mask_outside(
                    inside_image(anchors, inputs.metadata, self.allowed_border),
                    raw_labels)
       IN  \E fg \in shuffle_prefix(where_equal(l, 1), Max(positive_size(l), 0)) :
             LET p == subsample_positive_labels(l, fg)
             IN  \E bg \in shuffle_prefix(where_equal(p, 0), Max(negative_size(p), 0)) :
                    /\ pos_labels' = p
                    /\ balanced' = subsample_negative_labels(p, bg)
    /\ pc' = "targets"
    /\ UNCHANGED <<self, inputs, anchors, argmax_overlaps_inds, max_overlaps,
                   gt_argmax_overlaps_inds, bg_labels, fg_labels, raw_labels,
                   labels, bbox_reg_targets>>

\* line 141: balance(labels), lines 84-97
balance ==
    /\ pc = "balance"
    /\ \E fg \in shuffle_prefix(where_equal(raw_labels, 1),
                                Max(positive_size(raw_labels), 0)) :
         LET p == subsample_positive_labels(raw_labels, fg)
         IN  \E bg \in shuffle_prefix(where_equal(p, 0), Max(negative_size(p), 0)) :
                /\ pos_labels' = p
                /\ balanced' = subsample_negative_labels(p, bg)
    /\ pc' = "targets"
    /\ UNCHANGED <<self, inputs, anchors, argmax_overlaps_inds, max_overlaps,
                   gt_argmax_overlaps_inds, bg_labels, fg_labels, raw_labels,
                   labels, bbox_reg_targets>>

\* lines 57-74
call_return ==
    /\ pc = "targets"
    /\ bbox_reg_targets' =
           bbox_transform(anchors, gather(inputs.gt_boxes, argmax_overlaps_inds))
    /\ labels' = mask_outside(
                     inside_image(anchors, inputs.metadata, self.allowed_border),
                     balanced)
    /\ pc' = "done"
    /\ UNCHANGED <<self, inputs, anchors, argmax_overlaps_inds, max_overlaps,
                   gt_argmax_overlaps_inds, bg_labels, fg_labels, raw_labels,
                   pos_labels, balanced>>

Next == label_raises \/ label_passes \/ balance \/ call_return

Spec == Init /\ [][Next]_vars

----------------------------------------------------------------------------
(* balance alone, on label arrays of any content *)

\* p labels 1, then n labels 0, then g labels -1
Blocks(p, n, g) ==
    [i \in 1..(p + n + g) |-> IF i <= p THEN 1 ELSE IF i <= p + n THEN 0 ELSE -1]

\* g labels -1, then 1 and 0 in turn while both last, then the rest
Mixed(p, n, g) ==
    [i \in 1..(p + n + g) |->
        IF i <= g THEN -1
        ELSE IF i - g <= 2 * Min(p, n) THEN (IF (i - g) % 2 = 1 THEN 1 ELSE 0)
        ELSE IF p > n THEN 1 ELSE 0]

\* (number of 1s, number of 0s): each class from one under its quota to
\* MaxExcess over it, at most MaxExcess over in all; and no 1 at all
LargeCounts ==
    { <<num_fg + ef, RPN_BATCHSIZE - Min(num_fg + ef, num_fg) + eb>> :
        <<ef, eb>> \in { d \in (-1..MaxExcess) \X (-1..MaxExcess) :
                            Max(d[1], 0) + Max(d[2], 0) <= MaxExcess } }
    \cup { <<0, RPN_BATCHSIZE + eb>> : eb \in -1..MaxExcess }

LabelArrays ==
    UNION { [1..m -> {-1, 0, 1}] : m \in 0..MaxLabels }
    \cup { Blocks(c[1], c[2], 2) : c \in LargeCounts }
    \cup { Mixed(c[1], c[2], 2) : c \in LargeCounts }

InitBalance ==
    /\ raw_labels \in LabelArrays
    /\ pc = "balance"
    /\ self = [ allowed_border |-> 0, clobber_positives |-> FALSE,
                negative_overlap |-> <<3, 10>>, positive_overlap |-> <<7, 10>>,
                stride |-> 16 ]
    /\ inputs = [ scores |-> <<0, 0>>, gt_boxes |-> <<>>, metadata |-> <<0, 0, 1>> ]
    /\ anchors = <<>>
    /\ argmax_overlaps_inds = <<>>
    /\ max_overlaps = <<>>
    /\ gt_argmax_overlaps_inds = <<>>
    /\ bg_labels = <<>>
    /\ fg_labels = <<>>
    /\ pos_labels = <<>>
    /\ balanced = <<>>
    /\ labels = <<>>
    /\ bbox_reg_targets = <<>>

NextBalance == balance

SpecBalance == InitBalance /\ [][NextBalance]_vars

----------------------------------------------------------------------------
(* Properties *)

Count(x, v) == Cardinality({ i \in DOMAIN x : x[i] = v })

Labelled == pc \in {"balance", "targets", "done"}

Balanced == pc \in {"targets", "done"}

\* the inside test of the specification, on anchor i of the call
Inside(i) ==
    /\ anchors[i][1] >= 0 - self.allowed_border
    /\ anchors[i][2] >= 0 - self.allowed_border
    /\ anchors[i][3] < self.allowed_border + inputs.metadata[2]
    /\ anchors[i][4] < self.allowed_border + inputs.metadata[1]

\* anchor i is the highest-overlap anchor (the argmax) of some gt box
TopMatch(i) == \E g \in DOMAIN gt_argmax_overlaps_inds : gt_argmax_overlaps_inds[g] = i

\* C1: every returned label is -1, 0 or 1 and the label, match-index and target
\* arrays have one entry per anchor; the force-positive scatter leaves exactly 1 at
\* every top-match anchor (also one shared by several gt boxes) and subsampling
\* leaves exactly -1 at every label it changes.
C1_LabelsWellFormed ==
    /\ Labelled =>
        /\ \A g \in DOMAIN gt_argmax_overlaps_inds :
               fg_labels[gt_argmax_overlaps_inds[g]] = 1
        /\ \A i \in DOMAIN raw_labels : raw_labels[i] \in {-1, 0, 1}
    /\ Balanced =>
        \A i \in DOMAIN balanced : balanced[i] # raw_labels[i] => balanced[i] = -1
    /\ pc = "done" =>
        /\ Len(labels) = Len(anchors)
        /\ Len(argmax_overlaps_inds) = Len(anchors)
        /\ Len(bbox_reg_targets) = Len(anchors)
        /\ \A i \in DOMAIN labels : labels[i] \in {-1, 0, 1}

C1_Witness ==
    /\ pc = "done"
    /\ \E g, h \in DOMAIN gt_argmax_overlaps_inds :
          g # h /\ gt_argmax_overlaps_inds[g] = gt_argmax_overlaps_inds[h]
    /\ \E i \in DOMAIN balanced : raw_labels[i] = 0 /\ balanced[i] = -1
    /\ \E i \in DOMAIN labels : labels[i] = 1
    /\ \E i \in DOMAIN labels : labels[i] = 0

\* C2: after balance at most floor(F * T) labels are 1 and at most T labels are
\* 0 or 1.
C2_BalanceQuota ==
    Balanced =>
        /\ RPN_FG_FRACTION_DEN * Count(balanced, 1) <= RPN_FG_FRACTION_NUM * RPN_BATCHSIZE
        /\ Count(balanced, 1) + Count(balanced, 0) <= RPN_BATCHSIZE

C2_Witness ==
    /\ Balanced
    /\ RPN_FG_FRACTION_DEN * Count(raw_labels, 1) > RPN_FG_FRACTION_NUM * RPN_BATCHSIZE
    /\ Count(raw_labels, 1) + Count(raw_labels, 0) > RPN_BATCHSIZE + 1
    /\ Count(balanced, 1) + Count(balanced, 0) = RPN_BATCHSIZE
    /\ Count(balanced, 0) < Count(raw_labels, 0)

\* C3: in the returned labels an anchor that fails the inside test has -1 and an
\* anchor that passes it has its balanced label.
C3_BorderFilter ==
    pc = "done" =>
        \A i \in DOMAIN labels :
            /\ ~Inside(i) => labels[i] = -1
            /\ Inside(i) => labels[i] = balanced[i]

\* allowed_border = 0 and an anchor whose only failing comparison is x2 = width
\* (or y2 = height) loses a 0 or 1 label
C3_Witness ==
    /\ pc = "done"
    /\ self.allowed_border = 0
    /\ \E i \in DOMAIN labels :
          /\ anchors[i][1] >= 0 /\ anchors[i][2] >= 0
          /\ \/ anchors[i][3] = inputs.metadata[2] /\ anchors[i][4] < inputs.metadata[1]
             \/ anchors[i][4] = inputs.metadata[1] /\ anchors[i][3] < inputs.metadata[2]
          /\ balanced[i] \in {0, 1}
          /\ labels[i] = -1

\* C4 as claimed: for every gt box the anchor with the highest overlap is labelled
\* 1 by label and is 1 in the output of call unless it fails the inside test.
C4_AsClaimed ==
    pc = "done" =>
        \A g \in DOMAIN gt_argmax_overlaps_inds :
            LET a == gt_argmax_overlaps_inds[g]
            IN  /\ raw_labels[a] = 1
                /\ Inside(a) => labels[a] = 1

\* C4 amended: for every gt box the (lowest-index) anchor with the highest overlap
\* is 1 after the force-positive pass; it is 1 in the array label hands to balance
\* unless clobber_positives is set and its overlap is below negative_overlap; and
\* such a 1 is 1 in the output of call unless the anchor fails the inside test or
\* more than floor(F * T) anchors are labelled 1 (balance may then flip it to -1).
C4_ForcedPositive ==
    pc = "done" =>
        \A g \in DOMAIN gt_argmax_overlaps_inds :
            LET a == gt_argmax_overlaps_inds[g]
            IN  /\ fg_labels[a] = 1
                /\ (~self.clobber_positives
                      \/ ~Less(max_overlaps[a], self.negative_overlap))
                   => raw_labels[a] = 1
                /\ (raw_labels[a] = 1 /\ Inside(a) /\ Count(raw_labels, 1) <= num_fg)
                   => labels[a] = 1

\* two gt boxes with different top anchors, one of them forced to 1 below both
\* thresholds, both returned as 1
C4_Witness ==
    /\ pc = "done"
    /\ \E g, h \in DOMAIN gt_argmax_overlaps_inds :
          LET a == gt_argmax_overlaps_inds[g]
              b == gt_argmax_overlaps_inds[h]
          IN  /\ a # b
              /\ Less(max_overlaps[a], self.negative_overlap)
              /\ Less(max_overlaps[a], self.positive_overlap)
              /\ Inside(a) /\ labels[a] = 1
              /\ Inside(b) /\ labels[b] = 1

\* C5: with clobber_positives false and negative_overlap <= positive_overlap, the
\* array label hands to balance has 0 at every anchor below negative_overlap that
\* is no gt box's top match, and 1 at every top-match anchor.
C5_BackgroundFirst ==
    (Labelled /\ ~self.clobber_positives
        /\ ~Less(self.positive_overlap, self.negative_overlap)) =>
        \A i \in DOMAIN raw_labels :
            /\ TopMatch(i) => raw_labels[i] = 1
            /\ (~TopMatch(i) /\ Less(max_overlaps[i], self.negative_overlap))
               => raw_labels[i] = 0

\* a top-match anchor below negative_overlap went 0 (background pass) then 1
C5_Witness ==
    /\ Labelled /\ ~self.clobber_positives
    /\ ~Less(self.positive_overlap, self.negative_overlap)
    /\ \E i \in DOMAIN raw_labels :
          /\ TopMatch(i) /\ Less(max_overlaps[i], self.negative_overlap)
          /\ bg_labels[i] = 0 /\ raw_labels[i] = 1
    /\ \E i \in DOMAIN raw_labels : ~TopMatch(i) /\ raw_labels[i] = 0

\* C6: with clobber_positives true, the array label hands to balance has 0 at
\* every anchor below negative_overlap, also one a positive pass had set to 1.
C6_ClobberPositives ==
    (Labelled /\ self.clobber_positives) =>
        \A i \in DOMAIN raw_labels :
            Less(max_overlaps[i], self.negative_overlap) => raw_labels[i] = 0

\* a forced positive and a thresholded positive, both below negative_overlap, are 0
C6_Witness ==
    /\ Labelled /\ self.clobber_positives
    /\ \E i \in DOMAIN raw_labels :
          /\ TopMatch(i) /\ fg_labels[i] = 1
          /\ Less(max_overlaps[i], self.negative_overlap) /\ raw_labels[i] = 0
    /\ \E i \in DOMAIN raw_labels :
          /\ ~TopMatch(i) /\ GreaterEqual(max_overlaps[i], self.positive_overlap)
          /\ Less(max_overlaps[i], self.negative_overlap) /\ raw_labels[i] = 0

\* the call's input is degenerate: no gt box, no anchor, or no anchor inside the image
Degenerate ==
    LET a == shift(inputs.scores, self.stride)
    IN  \/ Len(inputs.gt_boxes) = 0
        \/ Len(a) = 0
        \/ \A i \in DOMAIN a :
              ~inside_image(a, inputs.metadata, self.allowed_border)[i]

\* C7: on a degenerate input call does not raise, and every label it returns is -1.
C7_DegenerateAllIgnore ==
    Degenerate =>
        /\ pc # "raised"
        /\ pc = "done" => \A i \in DOMAIN labels : labels[i] = -1

\* C8: the quotas of balance are counted over all the anchors, inside the image or
\* not (so the balanced array is fixed by the raw labels and the shuffle alone), and
\* the returned labels are the balanced ones with the outside anchors' removed.
C8_BalanceBeforeBorder ==
    pc = "done" =>
        /\ Count(balanced, 1) = Min(Count(raw_labels, 1), num_fg)
        /\ Count(balanced, 0) =
               Min(Count(raw_labels, 0), RPN_BATCHSIZE - Count(balanced, 1))
        /\ \A v \in {0, 1} :
               Count(labels, v) =
                   Cardinality({ i \in DOMAIN balanced : Inside(i) /\ balanced[i] = v })

\* fewer positives returned than the quota although the sampler dropped a positive
\* anchor inside the image and kept one outside
C8_Witness ==
    /\ pc = "done"
    /\ Count(raw_labels, 1) > num_fg
    /\ Count(labels, 1) < num_fg
    /\ \E i \in DOMAIN labels : Inside(i) /\ raw_labels[i] = 1 /\ balanced[i] = -1
    /\ \E i \in DOMAIN labels : ~Inside(i) /\ balanced[i] = 1 /\ labels[i] = -1

\* C9: balance turns exactly the excess of the labels 1 over floor(F * T) into -1,
\* then exactly the excess of the labels 0 over T - P into -1 (P the labels 1
\* left), and changes nothing else.
C9_OnlyExcessToIgnore ==
    Balanced =>
        /\ Len(pos_labels) = Len(raw_labels) /\ Len(balanced) = Len(raw_labels)
        /\ \A i \in DOMAIN raw_labels :
              /\ pos_labels[i] # raw_labels[i] => raw_labels[i] = 1 /\ pos_labels[i] = -1
              /\ balanced[i] # pos_labels[i] => pos_labels[i] = 0 /\ balanced[i] = -1
        /\ Cardinality({ i \in DOMAIN raw_labels : pos_labels[i] # raw_labels[i] })
               = Max(Count(raw_labels, 1) - num_fg, 0)
        /\ Cardinality({ i \in DOMAIN raw_labels : balanced[i] # pos_labels[i] })
               = Max(Count(raw_labels, 0)
                       - (RPN_BATCHSIZE - Min(Count(raw_labels, 1), num_fg)), 0)

\* two positives dropped, every 0 and every -1 of the input kept
C9_Witness ==
    /\ Balanced
    /\ Count(raw_labels, -1) > 0
    /\ Count(raw_labels, 0) > 0
    /\ Count(pos_labels, 1) = Count(raw_labels, 1) - 2
    /\ Count(balanced, 0) = Count(raw_labels, 0)
    /\ Count(balanced, -1) = Count(raw_labels, -1) + 2

\* C10: after the force-positive pass every anchor whose overlap with some gt box
\* equals that box's highest overlap is 1, the tied ones included.
C10_TiesForced ==
    Labelled =>
        \A g \in DOMAIN gt_argmax_overlaps_inds :
            \A i \in DOMAIN anchors :
                ~Less(IoU(anchors[i], inputs.gt_boxes[g]),
                      IoU(anchors[gt_argmax_overlaps_inds[g]], inputs.gt_boxes[g]))
                => fg_labels[i] = 1

====
